---------------------------- MODULE Spec2Model ----------------------------
(***************************************************************************)
(* Model of DependencyVisualizer (stage3.py): the breadth-first builder of *)
(* the dependency graph (build_dependency_graph_bfs) and the extractor of  *)
(* a package's direct dependencies (extract_dependencies).                 *)
(*                                                                         *)
(* Package names, filter substrings and version keys are Python strings.   *)
(* A string of the model is a TLA+ string; CodePoints gives its characters *)
(* so that lower(), the substring test and the ordering used by sorted()   *)
(* are computed on characters, as Python computes them.                    *)
(***************************************************************************)
EXTENDS Integers, Sequences, FiniteSets, TLC

VARIABLES
    config,             \* self.config: package_name, version, filter_substring
    setOrder,           \* iteration order of Python's set() of str in this process
    dependency_graph,   \* self.dependency_graph
    visited_packages,   \* self.visited_packages
    package_depths,     \* self.package_depths
    queue,              \* local deque of (package, depth)
    pc,                 \* position in build_dependency_graph_bfs / extract call
    package_info,       \* the metadata record last handed to extract_dependencies
    dependencies,       \* the list last returned by extract_dependencies
    current,            \* the (package, depth) pair last dequeued
    lastEvent,          \* outcome of the last loop iteration
    fetched,            \* history: packages whose metadata was requested
    refetched,          \* history: some package was requested twice
    enqueued,           \* history: packages ever appended to the queue
    qAtCap,             \* history: len(queue) when len(visited) first reached the cap
    pending,            \* the part of  for dep in dependencies  still to run
    key_order,          \* the keys of self.dependency_graph in insertion order
    tree_lines,         \* the lines returned by _build_pretty_tree_limited
    cycles              \* the list returned by _find_cyclic_dependencies

\* the variables the build as one step per iteration and the extractor leave alone
analysisVars == << pending, key_order, tree_lines, cycles >>

vars == << config, setOrder, dependency_graph, visited_packages, package_depths,
           queue, pc, package_info, dependencies, current, lastEvent,
           fetched, refetched, enqueued, qAtCap, pending, key_order,
           tree_lines, cycles >>

---------------------------------------------------------------------------
(* Bounds of the model.  max_depth and max_packages are 4 and 300 in the   *)
(* program (stage3.py lines 156-157); the algorithm is checked with the    *)
(* same comparisons on scaled values.                                      *)

MAX_DEPTH == 2

MAX_PACKAGES == 4

\* largest number of names one fetched record declares during a build
MaxDeps == 2

\* largest number of (name, kind) declarations of one version in the
\* extractor's inputs
MaxDecl == 3

---------------------------------------------------------------------------
(* Strings *)

Names == {"A", "Ab", "a", "b", "ba"}

Filters == {"", "a", "B", "ab"}

VersionKeys == {"1.0.0", "2.0.0"}

CodePoints(s) ==
    CASE s = ""   -> << >>
      [] s = "A"  -> << 65 >>
      [] s = "B"  -> << 66 >>
      [] s = "a"  -> << 97 >>
      [] s = "b"  -> << 98 >>
      [] s = "Ab" -> << 65, 98 >>
      [] s = "ab" -> << 97, 98 >>
      [] s = "ba" -> << 98, 97 >>

\* str.lower() on the characters
LowerChar(c) == IF c >= 65 /\ c <= 90 THEN c + 32 ELSE c

Lower(cs) == [i \in 1..Len(cs) |-> LowerChar(cs[i])]

\* Python's  a in b  on the characters of two strings
Contains(hay, needle) ==
    \E i \in 0..(Len(hay) - Len(needle)) :
        \A j \in 1..Len(needle) : hay[i + j] = needle[j]

\* Python's  a < b  on str: code point by code point, a proper prefix first
RECURSIVE SeqLess(_, _)
SeqLess(a, b) ==
    IF b = << >> THEN FALSE
    ELSE IF a = << >> THEN TRUE
    ELSE IF Head(a) # Head(b) THEN Head(a) < Head(b)
    ELSE SeqLess(Tail(a), Tail(b))

StrLess(s, t) == SeqLess(CodePoints(s), CodePoints(t))

Range(seq) == {seq[i] : i \in 1..Len(seq)}

---------------------------------------------------------------------------
(* extract_dependencies *)

Kinds == {"dependencies", "devDependencies", "peerDependencies",
          "optionalDependencies"}

NoTag == "<no latest tag>"

EmptyDict == [k \in {} |-> << >>]

\* dict.get(key, {}) on a version's dict; a dict of declarations is modelled
\* by the sequence of its keys
GetKeys(version_info, kind) ==
    IF kind \in DOMAIN version_info THEN version_info[kind] ELSE << >>

\* package_info.get('versions', {}).get(target_version, {})
GetVersion(info, target_version) ==
    IF \E i \in 1..Len(info.versions) : info.versions[i].key = target_version
    THEN info.versions[CHOOSE i \in 1..Len(info.versions) :
                           info.versions[i].key = target_version].info
    ELSE EmptyDict

TargetVersion(info, cfg) ==
    IF cfg.version = "latest"
    THEN IF info.latest = NoTag THEN "1.0.0" ELSE info.latest
    ELSE cfg.version

\* lines 107-114; Found = FALSE is the  return []
ResolveVersionInfo(info, cfg) ==
    LET version_info == GetVersion(info, TargetVersion(info, cfg))
    IN  IF DOMAIN version_info # {}
        THEN [found |-> TRUE, version_info |-> version_info]
        ELSE IF Len(info.versions) > 0
             THEN [found |-> TRUE, version_info |-> info.versions[1].info]
             ELSE [found |-> FALSE, version_info |-> EmptyDict]

\* lines 117-133: the four extend() calls
CollectDeclared(version_info) ==
    GetKeys(version_info, "dependencies")
        \o GetKeys(version_info, "devDependencies")
        \o GetKeys(version_info, "peerDependencies")
        \o GetKeys(version_info, "optionalDependencies")

\* the mutant of Unique: the list is kept as collected
UniqueKeepsDuplicates(deps, order) == deps

\* line 136: list(set(dependencies)); order is the set's iteration order
Unique(deps, order) ==
    SelectSeq(order, LAMBDA n : n \in Range(deps))

\* the mutant of Excluded: the comparison without lower()
ExcludedCaseSensitive(dep, filter_substring) ==
    Contains(CodePoints(dep), CodePoints(filter_substring))

\* line 143, negated
Excluded(dep, filter_substring) ==
    Contains(Lower(CodePoints(dep)), Lower(CodePoints(filter_substring)))

\* lines 139-144
ApplyFilter(deps, filter_substring) ==
    IF filter_substring # ""
    THEN SelectSeq(deps, LAMBDA dep : ~Excluded(dep, filter_substring))
    ELSE deps

RECURSIVE Insert(_, _)
Insert(sorted, x) ==
    IF sorted = << >> THEN << x >>
    ELSE IF StrLess(x, Head(sorted)) THEN << x >> \o sorted
    ELSE << Head(sorted) >> \o Insert(Tail(sorted), x)

RECURSIVE InsertAll(_, _)
InsertAll(sorted, rest) ==
    IF rest = << >> THEN sorted
    ELSE InsertAll(Insert(sorted, Head(rest)), Tail(rest))

\* the mutant of Sorted: the list is returned unsorted
SortedSkipped(deps) == deps

\* line 146: sorted()
Sorted(deps) == InsertAll(<< >>, deps)

extract_dependencies(info, cfg, order) ==
    LET r == ResolveVersionInfo(info, cfg)
    IN  IF ~r.found THEN << >>
        ELSE Sorted(ApplyFilter(Unique(CollectDeclared(r.version_info), order),
                                cfg.filter_substring))

---------------------------------------------------------------------------
(* Inputs: metadata records *)

\* the names in ascending order, the order in which the fixtures list keys
RECURSIVE AscendingOf(_)
AscendingOf(S) ==
    IF S = {} THEN << >>
    ELSE LET m == CHOOSE x \in S : \A y \in S \ {x} : StrLess(x, y)
         IN  << m >> \o AscendingOf(S \ {m})

Reverse(seq) == [i \in 1..Len(seq) |-> seq[Len(seq) + 1 - i]]

\* iteration orders of a set of str that the process may have
SetOrders == {AscendingOf(Names), Reverse(AscendingOf(Names))}

\* a version's dict that declares the pairs of D (name, kind), the keys of a
\* kind in the order keyOrder
VersionInfoOf(D, keyOrder) ==
    [k \in {d[2] : d \in D} \cup {"name"} |->
        SelectSeq(keyOrder, LAMBDA n : << n, k >> \in D)]

SmallSets(S, n) == {T \in SUBSET S : Cardinality(T) <= n}

OneVersion(version_info) ==
    [latest |-> "1.0.0",
     versions |-> << [key |-> "1.0.0", info |-> version_info] >>]

\* the records a metadata source returns during a build
BuildRecords ==
    {OneVersion(VersionInfoOf(S \X {"dependencies"}, AscendingOf(Names))) :
        S \in SmallSets(Names, MaxDeps)}

---------------------------------------------------------------------------
(* build_dependency_graph_bfs *)

NoCap == 0 - 1

EmptyMap == [p \in {} |-> 0]

\* dict[key] = value
Put(map, key, value) ==
    [p \in DOMAIN map \cup {key} |-> IF p = key THEN value ELSE map[p]]

\* the mutant of Rest: the head is read but not removed
RestKeepsHead(q) == q

\* line 165: what popleft() leaves in the queue
Rest(q) == Tail(q)

\* the mutant of CanExpand: the comparison is <=
CanExpandInclusive(depth) == depth <= MAX_DEPTH

\* line 180
CanExpand(depth) == depth < MAX_DEPTH

\* line 164, the loop condition
LoopCond(q, visited) == q # << >> /\ Cardinality(visited) < MAX_PACKAGES

\* the mutant of Admit without the test  dep not in self.visited_packages
AdmitRevisits(st, dep, depth) ==
    IF Cardinality(st.visited) < MAX_PACKAGES
    THEN [st EXCEPT !.visited = @ \cup {dep},
                    !.depths = Put(@, dep, depth + 1),
                    !.queue = Append(@, [pkg |-> dep, depth |-> depth + 1])]
    ELSE st

\* the mutant of Admit without  self.visited_packages.add(dep)
AdmitUnmarked(st, dep, depth) ==
    IF dep \notin st.visited /\ Cardinality(st.visited) < MAX_PACKAGES
    THEN [st EXCEPT !.depths = Put(@, dep, depth + 1),
                    !.queue = Append(@, [pkg |-> dep, depth |-> depth + 1])]
    ELSE st

\* the mutant of Admit that records the parent's depth for the child
AdmitParentDepth(st, dep, depth) ==
    IF dep \notin st.visited /\ Cardinality(st.visited) < MAX_PACKAGES
    THEN [st EXCEPT !.visited = @ \cup {dep},
                    !.depths = Put(@, dep, depth),
                    !.queue = Append(@, [pkg |-> dep, depth |-> depth + 1])]
    ELSE st

\* lines 182-189: one pass of the  for dep in dependencies  body
Admit(st, dep, depth) ==
    IF dep \notin st.visited /\ Cardinality(st.visited) < MAX_PACKAGES
    THEN [st EXCEPT !.visited = @ \cup {dep},
                    !.depths = Put(@, dep, depth + 1),
                    !.queue = Append(@, [pkg |-> dep, depth |-> depth + 1])]
    ELSE st

\* history: the queue length at the moment the cap is first reached, and the
\* names appended so far
Observe(st) ==
    [st EXCEPT !.qcap = IF @ = NoCap /\ Cardinality(st.visited) >= MAX_PACKAGES
                        THEN Len(st.queue) ELSE @,
               !.enq = @ \cup {st.queue[i].pkg : i \in 1..Len(st.queue)}]

\* lines 181-189: the  for  loop over the extracted list
RECURSIVE AdmitAll(_, _, _)
AdmitAll(st, deps, depth) ==
    IF deps = << >> THEN st
    ELSE AdmitAll(Observe(Admit(st, Head(deps), depth)), Tail(deps), depth)

\* the mutant of OnFetchError: the handler stores nothing
OnFetchErrorStoresNothing(graph, pkg) == graph

\* lines 194-196: the  except DependencyFetchError  handler
OnFetchError(graph, pkg) == Put(graph, pkg, << >>)

Configs ==
    [package_name : {"a", "Ab"}, version : {"latest"},
     filter_substring : {"", "B"}]

\* the object after __init__ (lines 23-29) and load_config
Init ==
    /\ pending = << >>
    /\ key_order = << >>
    /\ tree_lines = << >>
    /\ cycles = << >>
    /\ config \in Configs
    /\ setOrder = Reverse(AscendingOf(Names))
    /\ dependency_graph = EmptyMap
    /\ visited_packages = {}
    /\ package_depths = EmptyMap
    /\ queue = << >>
    /\ pc = "start"
    /\ package_info = OneVersion(EmptyDict)
    /\ dependencies = << >>
    /\ current = [pkg |-> "", depth |-> 0]
    /\ lastEvent = "none"
    /\ fetched = {}
    /\ refetched = FALSE
    /\ enqueued = {}
    /\ qAtCap = NoCap

\* lines 150-154
Reinit ==
    /\ UNCHANGED analysisVars
    /\ pc = "start"
    /\ dependency_graph' = EmptyMap
    /\ visited_packages' = {}
    /\ package_depths' = Put(EmptyMap, config.package_name, 0)
    /\ pc' = "seed"
    /\ UNCHANGED << config, setOrder, queue, package_info, dependencies, current,
                    lastEvent, fetched, refetched, enqueued, qAtCap >>

\* lines 159-160
Seed ==
    /\ UNCHANGED analysisVars
    /\ pc = "seed"
    /\ queue' = << [pkg |-> config.package_name, depth |-> 0] >>
    /\ visited_packages' = visited_packages \cup {config.package_name}
    /\ enqueued' = {config.package_name}
    /\ qAtCap' = IF Cardinality(visited_packages') >= MAX_PACKAGES THEN 1 ELSE NoCap
    /\ pc' = "loop"
    /\ UNCHANGED << config, setOrder, dependency_graph, package_depths,
                    package_info, dependencies, current, lastEvent, fetched,
                    refetched >>

\* lines 165-172: popleft and the request for the package's metadata
Dequeue ==
    /\ UNCHANGED analysisVars
    /\ pc = "loop"
    /\ LoopCond(queue, visited_packages)
    /\ current' = Head(queue)
    /\ fetched' = fetched \cup {Head(queue).pkg}
    /\ refetched' = (refetched \/ Head(queue).pkg \in fetched)
    /\ UNCHANGED << config, setOrder >>

\* lines 172-189: the fetch succeeds and the package may be expanded
ProcessExpand ==
    /\ Dequeue
    /\ CanExpand(Head(queue).depth)
    /\ \E info \in BuildRecords :
        LET deps == extract_dependencies(info, config, setOrder)
            st == AdmitAll([visited |-> visited_packages,
                            depths |-> package_depths,
                            queue |-> Rest(queue),
                            qcap |-> qAtCap,
                            enq |-> enqueued],
                           deps, Head(queue).depth)
        IN  /\ package_info' = info
            /\ dependencies' = deps
            /\ dependency_graph' = Put(dependency_graph, Head(queue).pkg, deps)
            /\ visited_packages' = st.visited
            /\ package_depths' = st.depths
            /\ queue' = st.queue
            /\ qAtCap' = st.qcap
            /\ enqueued' = st.enq
    /\ lastEvent' = "expanded"
    /\ pc' = "loop"

\* lines 172-178, 190-192: the fetch succeeds at the maximal depth
ProcessAtMaxDepth ==
    /\ Dequeue
    /\ ~CanExpand(Head(queue).depth)
    /\ \E info \in BuildRecords :
        /\ package_info' = info
        /\ dependencies' = extract_dependencies(info, config, setOrder)
        /\ dependency_graph' = Put(dependency_graph, Head(queue).pkg, dependencies')
    /\ queue' = Rest(queue)
    /\ lastEvent' = "maxdepth"
    /\ pc' = "loop"
    /\ UNCHANGED << visited_packages, package_depths, qAtCap, enqueued >>

\* lines 172, 194-196: get_npm_package_info raises DependencyFetchError
ProcessFetchError ==
    /\ Dequeue
    /\ dependency_graph' = OnFetchError(dependency_graph, Head(queue).pkg)
    /\ queue' = Rest(queue)
    /\ lastEvent' = "fetcherror"
    /\ pc' = "loop"
    /\ UNCHANGED << visited_packages, package_depths, package_info, dependencies,
                    qAtCap, enqueued >>

\* line 164 is false: the loop is left
LoopExit ==
    /\ UNCHANGED analysisVars
    /\ pc = "loop"
    /\ ~LoopCond(queue, visited_packages)
    /\ pc' = "done"
    /\ lastEvent' = "exit"
    /\ UNCHANGED << config, setOrder, dependency_graph, visited_packages,
                    package_depths, queue, package_info, dependencies, current,
                    fetched, refetched, enqueued, qAtCap >>

Next ==
    \/ Reinit
    \/ Seed
    \/ ProcessExpand
    \/ ProcessAtMaxDepth
    \/ ProcessFetchError
    \/ LoopExit

Spec == Init /\ [][Next]_vars

\* the loop is sequential code: a step that can be taken is taken
FairSpec == Spec /\ WF_vars(Next)

---------------------------------------------------------------------------
(* extract_dependencies on its own: the inputs are drawn in the initial    *)
(* state and one step applies the function.                                *)

\* the versions' dicts of the records with several versions
VersionInfoPool ==
    {EmptyDict,
     VersionInfoOf({}, AscendingOf(Names)),
     VersionInfoOf({<< "a", "dependencies" >>}, AscendingOf(Names)),
     VersionInfoOf({<< "b", "devDependencies" >>, << "A", "dependencies" >>},
                   AscendingOf(Names))}

\* version tables with at most two versions, in stored order
VersionTables ==
    {<< >>}
    \cup {<< [key |-> k, info |-> i] >> : k \in VersionKeys, i \in VersionInfoPool}
    \cup {<< [key |-> k1, info |-> i1], [key |-> k2, info |-> i2] >> :
            << k1, k2 >> \in {kk \in VersionKeys \X VersionKeys : kk[1] # kk[2]},
            << i1, i2 >> \in VersionInfoPool \X VersionInfoPool}

ExtractRecords ==
    {OneVersion(VersionInfoOf(D, o)) :
        D \in SmallSets(Names \X Kinds, MaxDecl), o \in SetOrders}
    \cup {[latest |-> t, versions |-> vt] :
            t \in VersionKeys \cup {NoTag}, vt \in VersionTables}

ExtractConfigs ==
    [package_name : {"a"}, version : {"latest"} \cup VersionKeys,
     filter_substring : Filters]

InitExtract ==
    /\ pending = << >>
    /\ key_order = << >>
    /\ tree_lines = << >>
    /\ cycles = << >>
    /\ config \in ExtractConfigs
    /\ setOrder \in SetOrders
    /\ package_info \in ExtractRecords
    /\ dependencies = << >>
    /\ pc = "extract"
    /\ dependency_graph = EmptyMap
    /\ visited_packages = {}
    /\ package_depths = EmptyMap
    /\ queue = << >>
    /\ current = [pkg |-> "", depth |-> 0]
    /\ lastEvent = "none"
    /\ fetched = {}
    /\ refetched = FALSE
    /\ enqueued = {}
    /\ qAtCap = NoCap

\* one call of extract_dependencies (lines 96-146)
ExtractCall ==
    /\ UNCHANGED analysisVars
    /\ pc = "extract"
    /\ dependencies' = extract_dependencies(package_info, config, setOrder)
    /\ pc' = "extracted"
    /\ UNCHANGED << config, setOrder, dependency_graph, visited_packages,
                    package_depths, queue, package_info, current, lastEvent,
                    fetched, refetched, enqueued, qAtCap >>

NextExtract == ExtractCall

SpecExtract == InitExtract /\ [][NextExtract]_vars

---------------------------------------------------------------------------
(* Claims about extract_dependencies *)

\* the names the resolved version declares, in any of the four kinds
DeclaredNames ==
    LET r == ResolveVersionInfo(package_info, config)
    IN  UNION {Range(GetKeys(r.version_info, k)) : k \in Kinds}

\* s occurs in name when the case of letters is ignored
ContainsIgnoringCase(name, s) ==
    LET n == CodePoints(name)
        f == CodePoints(s)
        SameLetter(x, y) == x = y \/ (x >= 65 /\ x <= 90 /\ y = x + 32)
                                  \/ (y >= 65 /\ y <= 90 /\ x = y + 32)
    IN  \E i \in 0..(Len(n) - Len(f)) :
            \A j \in 1..Len(f) : SameLetter(n[i + j], f[j])

\* C9: the list returned by extract_dependencies is in strictly ascending
\* case-sensitive lexicographic order, hence sorted and without a repeated
\* name, whatever the record, the version selection and the filter.
C9_SortedNoDuplicates ==
    pc = "extracted" =>
        \A i \in 1..Len(dependencies) : \A j \in 1..Len(dependencies) :
            i < j => StrLess(dependencies[i], dependencies[j])

\* C9 witness: a returned list with a name that two kinds of the resolved
\* version declare, and with "Ab" before "a" (upper case sorts first).
C9_Witness ==
    /\ pc = "extracted"
    /\ Len(dependencies) >= 2
    /\ LET r == ResolveVersionInfo(package_info, config)
       IN  \E n \in Range(dependencies) : \E k1 \in Kinds : \E k2 \in Kinds :
              /\ k1 # k2
              /\ n \in Range(GetKeys(r.version_info, k1))
              /\ n \in Range(GetKeys(r.version_info, k2))
    /\ "Ab" \in Range(dependencies)
    /\ "a" \in Range(dependencies)

\* C10: with a non-empty filter s the returned names are exactly the
\* declared names of the resolved version that do not contain s, case
\* ignored; with the empty filter they are all the declared names.
C10_ExclusionFilter ==
    pc = "extracted" =>
        Range(dependencies) =
            IF config.filter_substring = "" THEN DeclaredNames
            ELSE {n \in DeclaredNames :
                     ~ContainsIgnoringCase(n, config.filter_substring)}

\* C10 witness: the filter "B" drops the declared "b" and "Ab", which
\* differ from it in case, and keeps the declared "a".
C10_Witness ==
    /\ pc = "extracted"
    /\ config.filter_substring = "B"
    /\ {"b", "Ab", "a"} \subseteq DeclaredNames
    /\ dependencies = << "a" >>

---------------------------------------------------------------------------
(* Claims about build_dependency_graph_bfs *)

Keys(map) == DOMAIN map

\* a step that dequeues a pair: every step of the loop but the exit
DequeueStep == pc = "loop" /\ lastEvent' # "exit"

\* the stored edges u -> v
Edge(u, v) ==
    u \in Keys(dependency_graph) /\ v \in Range(dependency_graph[u])

\* the packages reachable from the root along at most k stored edges
RECURSIVE Within(_)
Within(k) ==
    IF k = 0 THEN {config.package_name}
    ELSE LET W == Within(k - 1)
         IN  W \cup {v \in Names : \E u \in W : Edge(u, v)}

CapBound == MAX_PACKAGES + (IF qAtCap = NoCap THEN 0 ELSE qAtCap)

\* C1: on completion DependencyMap and DepthMap have the same keys, and
\* every package that was ever enqueued has an entry in DependencyMap.
C1_SameKeysOnCompletion ==
    pc = "done" =>
        /\ Keys(dependency_graph) = Keys(package_depths)
        /\ enqueued \subseteq Keys(dependency_graph)

\* C2: the build loop ends only when the queue is empty: what was queued
\* when the cap was reached is still dequeued and processed.
C2_LoopEndsWithEmptyQueue ==
    pc = "done" => queue = << >>

\* C3: a fetch error on the dequeued package stores an empty list for it,
\* changes no other entry, enqueues nothing, leaves VisitedSet and DepthMap
\* as they were, and the loop goes on with the packages still queued.
C3_FetchErrorIsAbsorbed ==
    [][(DequeueStep /\ lastEvent' = "fetcherror") =>
          /\ current' = Head(queue)
          /\ Keys(dependency_graph') = Keys(dependency_graph) \cup {current'.pkg}
          /\ dependency_graph'[current'.pkg] = << >>
          /\ \A p \in Keys(dependency_graph) \ {current'.pkg} :
                dependency_graph'[p] = dependency_graph[p]
          /\ queue' = Tail(queue)
          /\ visited_packages' = visited_packages
          /\ package_depths' = package_depths
          /\ pc' = "loop"
          /\ (queue' # << >> => Cardinality(visited_packages') < MAX_PACKAGES)
      ]_vars

\* C3 witness: the fetch of a package that is not the root failed while
\* other packages were still queued.
C3_Witness ==
    /\ lastEvent = "fetcherror"
    /\ pc = "loop"
    /\ current.depth >= 1
    /\ queue # << >>
    /\ dependency_graph[current.pkg] = << >>

\* C4: no package is queued or recorded with a depth above MAX_DEPTH, and
\* a package dequeued at depth MAX_DEPTH gets its extracted list stored but
\* adds nothing to the queue, VisitedSet or DepthMap.
C4_DepthLimit ==
    /\ [](/\ \A p \in Keys(package_depths) : package_depths[p] <= MAX_DEPTH
          /\ \A i \in 1..Len(queue) : queue[i].depth <= MAX_DEPTH)
    /\ [][(DequeueStep /\ current'.depth = MAX_DEPTH) =>
             /\ queue' = Tail(queue)
             /\ visited_packages' = visited_packages
             /\ package_depths' = package_depths
             /\ (lastEvent' # "fetcherror" =>
                    dependency_graph'[current'.pkg] = dependencies')
         ]_vars

\* C4 witness: a package at depth MAX_DEPTH was processed, its stored list
\* names a package that was never visited.
C4_Witness ==
    /\ lastEvent = "maxdepth"
    /\ current.depth = MAX_DEPTH
    /\ \E d \in Range(dependency_graph[current.pkg]) : d \notin visited_packages

\* C5: no package is dequeued and fetched twice, and an entry of
\* DependencyMap, once written, is never written again.
C5_FetchedAtMostOnce ==
    /\ [](~refetched)
    /\ [][/\ DequeueStep => Head(queue).pkg \notin Keys(dependency_graph)
          /\ \A p \in Keys(dependency_graph) :
                /\ p \in Keys(dependency_graph')
                /\ dependency_graph'[p] = dependency_graph[p]
         ]_vars

\* C5 witness: a finished build whose stored graph has a self-loop, a cycle
\* back to the root and a package with two parents.
C5_Witness ==
    /\ pc = "done"
    /\ \E p \in Names : Edge(p, p)
    /\ \E p \in Names \ {config.package_name} : Edge(p, config.package_name)
    /\ \E p \in Names : \E u \in Names : \E w \in Names :
          u # w /\ p \notin {u, w} /\ Edge(u, p) /\ Edge(w, p)

\* C6: the build terminates.
C6_Terminates == <>(pc = "done")

\* C6 witness: a build that finished after the cap was reached, a fetch
\* failed and a cycle was stored.
C6_Witness ==
    /\ pc = "done"
    /\ qAtCap # NoCap
    /\ \E p \in Keys(dependency_graph) :
          p # config.package_name /\ dependency_graph[p] = << >>
    /\ \E p \in Names \ {config.package_name} :
          Edge(p, config.package_name) /\ Edge(config.package_name, p)

\* C7: on completion DependencyMap has at most MAX_PACKAGES entries plus
\* the length the queue had when VisitedSet first reached MAX_PACKAGES.
C7_SizeBound ==
    pc = "done" => Cardinality(Keys(dependency_graph)) <= CapBound

\* C7 witness: a finished build in which the cap was reached with two
\* packages in the queue.
C7_Witness ==
    /\ pc = "done"
    /\ qAtCap = 2
    /\ Cardinality(visited_packages) = MAX_PACKAGES

\* C8: a recorded depth is never overwritten; on completion it is the
\* length of the shortest path of stored edges from the root (a package is
\* within k stored edges of the root exactly when its depth is at most k),
\* and no stored edge between recorded packages goes down more than one
\* level.
C8_DepthIsShortestPath ==
    /\ [][\A p \in Keys(package_depths) :
             p \in Keys(package_depths') /\ package_depths'[p] = package_depths[p]
         ]_vars
    /\ [](pc = "done" =>
            /\ package_depths[config.package_name] = 0
            /\ \A k \in 0..Cardinality(Names) :
                  LET W == Within(k)
                  IN  \A p \in Keys(package_depths) :
                         p \in W <=> package_depths[p] <= k
            /\ \A u \in Keys(package_depths) : \A v \in Keys(package_depths) :
                  Edge(u, v) => package_depths[v] <= package_depths[u] + 1)

\* C8 witness: a finished build cut short by the cap, with a package at
\* depth 1 that a package of depth 1 also depends on, and one at depth 2.
C8_Witness ==
    /\ pc = "done"
    /\ qAtCap # NoCap
    /\ \E u \in Keys(package_depths) : \E v \in Keys(package_depths) :
          /\ u # v
          /\ package_depths[u] = 1
          /\ package_depths[v] = 1
          /\ Edge(u, v)
    /\ \E p \in Keys(package_depths) : package_depths[p] = 2

---------------------------------------------------------------------------
(* Claims about the version resolution of extract_dependencies *)

\* the version key the selection names: the record's latest tag for
\* "latest", the selection string otherwise
SelectedKey ==
    IF config.version = "latest" THEN package_info.latest ELSE config.version

\* the names the version stored under key declares, filter applied
FilteredNamesOf(version_info) ==
    {n \in UNION {Range(GetKeys(version_info, k)) : k \in Kinds} :
        config.filter_substring = ""
            \/ ~ContainsIgnoringCase(n, config.filter_substring)}

\* C12: for a selection whose key is defined (an exact version, or
\* "latest" on a record with a latest tag): when the key is in the version
\* table the returned names are those the version under that key declares;
\* the first stored version is used only when the key is absent; a record
\* without versions yields the empty list.
C12_VersionResolution ==
    (pc = "extracted" /\ SelectedKey # NoTag) =>
        LET table == package_info.versions
            at == {i \in 1..Len(table) : table[i].key = SelectedKey}
        IN  IF table = << >> THEN dependencies = << >>
            ELSE IF at # {}
                 THEN \A i \in at :
                         Range(dependencies) = FilteredNamesOf(table[i].info)
                 ELSE Range(dependencies) = FilteredNamesOf(table[1].info)

---------------------------------------------------------------------------
(* _build_pretty_tree_limited and display_dependency_graph                 *)
(*                                                                         *)
(* A display line  f"{prefix}{connector}{package}"  is kept as its parts:  *)
(* the prefix as the sequence of its four-character segments ("blank" for  *)
(* four spaces, "bar" for the vertical bar and three spaces), the          *)
(* connector ("end" for the corner glyph, "continue" for the tee glyph)    *)
(* and whether the cycle mark follows the name.                            *)

\* line 236: self.dependency_graph.get(package, [])
GraphGet(graph, package) ==
    IF package \in DOMAIN graph THEN graph[package] ELSE << >>

\* line 227: the line of a package already in visited
CycleLine(prefix, is_last, package) ==
    [prefix |-> prefix, connector |-> "end", package |-> package, cycle |-> TRUE]

\* lines 232-233
NodeLine(prefix, is_last, package) ==
    [prefix |-> prefix,
     connector |-> IF is_last THEN "end" ELSE "continue",
     package |-> package, cycle |-> FALSE]

\* line 238
NewPrefix(prefix, is_last) ==
    Append(prefix, IF is_last THEN "blank" ELSE "bar")

\* the mutant of VisitedAfterChild: the child is handed the set itself
VisitedShared(visited, child_visited) == child_visited

\* line 242: the child is handed  visited.copy(), so what the child adds to
\* its set does not reach the caller's set
VisitedAfterChild(visited, child_visited) == visited

RECURSIVE BuildTree(_, _, _, _, _)
RECURSIVE BuildChildren(_, _, _, _, _, _)

\* lines 240-244: the children from the i-th on; lines collects the output
BuildChildren(graph, deps, i, new_prefix, visited, lines) ==
    IF i > Len(deps) THEN [lines |-> lines, visited |-> visited]
    ELSE LET child == BuildTree(graph, deps[i], new_prefix, i = Len(deps), visited)
         IN  BuildChildren(graph, deps, i + 1, new_prefix,
                           VisitedAfterChild(visited, child.visited),
                           lines \o child.lines)

\* lines 221-246; the result carries the lines returned and the set the call
\* was handed, as the call leaves it
BuildTree(graph, package, prefix, is_last, visited) ==
    IF package \in visited
    THEN [lines |-> << CycleLine(prefix, is_last, package) >>, visited |-> visited]
    ELSE BuildChildren(graph, GraphGet(graph, package), 1,
                       NewPrefix(prefix, is_last), visited \cup {package},
                       << NodeLine(prefix, is_last, package) >>)

\* line 215
build_pretty_tree_limited(graph, package) ==
    BuildTree(graph, package, << >>, TRUE, {}).lines

---------------------------------------------------------------------------
(* The finished graphs handed to the renderer and to the analyzer *)

GraphNames == {"A", "a", "b", "ba"}

\* the lists a build stores: sorted, without duplicates
StoredLists == {AscendingOf(S) : S \in SmallSets(GraphNames, MaxDeps)}

\* the keys reachable from root along edges between keys
RECURSIVE KeysFrom(_, _)
KeysFrom(graph, seen) ==
    LET more == {v \in DOMAIN graph : \E u \in seen : v \in Range(graph[u])}
    IN  IF more \subseteq seen THEN seen ELSE KeysFrom(graph, seen \cup more)

\* dependency maps in which every key was discovered from the root
Graphs(root) ==
    UNION {{g \in [K -> StoredLists] : KeysFrom(g, {root}) = K} :
              K \in {K \in SUBSET GraphNames : root \in K}}

\* the keys in the order the build stored them: the root, then every
\* package in the order the queue took it up
RECURSIVE KeysInOrder(_, _, _)
KeysInOrder(graph, order, i) ==
    IF i > Len(order) THEN order
    ELSE LET New(dep) == dep \in DOMAIN graph /\ dep \notin Range(order)
         IN  KeysInOrder(graph, order \o SelectSeq(graph[order[i]], New), i + 1)

InitAnalysis ==
    /\ config \in [package_name : GraphNames, version : {"latest"},
                   filter_substring : {""}]
    /\ dependency_graph \in Graphs(config.package_name)
    /\ key_order = KeysInOrder(dependency_graph, << config.package_name >>, 1)
    /\ pc = "built"
    /\ tree_lines = << >>
    /\ cycles = << >>
    /\ pending = << >>
    /\ setOrder = AscendingOf(Names)
    /\ visited_packages = DOMAIN dependency_graph
    /\ package_depths = EmptyMap
    /\ queue = << >>
    /\ package_info = OneVersion(EmptyDict)
    /\ dependencies = << >>
    /\ current = [pkg |-> "", depth |-> 0]
    /\ lastEvent = "exit"
    /\ fetched = {}
    /\ refetched = FALSE
    /\ enqueued = {}
    /\ qAtCap = NoCap

\* lines 202-219: display_dependency_graph
Display ==
    /\ pc = "built"
    /\ tree_lines' = build_pretty_tree_limited(dependency_graph, config.package_name)
    /\ pc' = "displayed"
    /\ UNCHANGED << config, setOrder, dependency_graph, visited_packages,
                    package_depths, queue, package_info, dependencies, current,
                    lastEvent, fetched, refetched, enqueued, qAtCap, pending,
                    key_order, cycles >>

---------------------------------------------------------------------------
(* _find_cyclic_dependencies *)

\* path.index(node)
IndexOf(path, node) == CHOOSE i \in 1..Len(path) : path[i] = node

\* the mutant of CycleOf: the whole path is reported, not its suffix
CycleOfWholePath(path, node) == Append(path, node)

\* lines 289-290: path[cycle_start:] + [node]
CycleOf(path, node) ==
    Append(SubSeq(path, IndexOf(path, node), Len(path)), node)

\* the mutant of Classify: the test of visited comes first
ClassifyVisitedFirst(node, path, visited) ==
    IF node \in visited THEN "seen"
    ELSE IF node \in Range(path) THEN "cycle"
    ELSE "new"

\* lines 288, 293: the two tests of dfs, in their order
Classify(node, path, visited) ==
    IF node \in Range(path) THEN "cycle"
    ELSE IF node \in visited THEN "seen"
    ELSE "new"

RECURSIVE Dfs(_, _, _, _)
RECURSIVE DfsNeighbors(_, _, _, _, _)

\* lines 299-301: the neighbours from the i-th on; path is the caller's list,
\* each call gets a copy of it
DfsNeighbors(graph, neighbors, i, path, st) ==
    IF i > Len(neighbors) THEN st
    ELSE DfsNeighbors(graph, neighbors, i + 1, path,
                      IF neighbors[i] \in DOMAIN graph
                      THEN Dfs(graph, neighbors[i], path, st)
                      ELSE st)

\* lines 287-301: dfs; st holds the closure's  visited  and  cycles
Dfs(graph, node, path, st) ==
    LET kind == Classify(node, path, st.visited)
    IN  IF kind = "cycle"
        THEN [st EXCEPT !.cycles = Append(@, CycleOf(path, node))]
        ELSE IF kind = "seen" THEN st
        ELSE DfsNeighbors(graph, GraphGet(graph, node), 1, Append(path, node),
                          [st EXCEPT !.visited = @ \cup {node}])

\* lines 303-304: for package in self.dependency_graph
RECURSIVE DfsFromEach(_, _, _, _)
DfsFromEach(graph, order, i, st) ==
    IF i > Len(order) THEN st
    ELSE DfsFromEach(graph, order, i + 1, Dfs(graph, order[i], << >>, st))

\* lines 283-306
find_cyclic_dependencies(graph, order) ==
    DfsFromEach(graph, order, 1, [visited |-> {}, cycles |-> << >>]).cycles

\* lines 248-281: analyze_graph_properties, which calls the cycle search
Analyze ==
    /\ pc = "displayed"
    /\ cycles' = find_cyclic_dependencies(dependency_graph, key_order)
    /\ pc' = "analyzed"
    /\ UNCHANGED << config, setOrder, dependency_graph, visited_packages,
                    package_depths, queue, package_info, dependencies, current,
                    lastEvent, fetched, refetched, enqueued, qAtCap, pending,
                    key_order, tree_lines >>

NextAnalysis ==
    \/ Display
    \/ Analyze

\* run(): lines 327 and 330, after the build
SpecAnalysis == InitAnalysis /\ [][NextAnalysis]_vars

\* the calls follow one another in run()
FairSpecAnalysis == SpecAnalysis /\ WF_vars(NextAnalysis)

---------------------------------------------------------------------------
(* Claims about the rendered tree *)

Rendered == pc \in {"displayed", "analyzed"}

\* the level of a line: the number of segments of its prefix
Level(line) == Len(line.prefix)

\* the lines are levelled as a tree printed top-down: the first line at
\* level 0, every later line at most one level below the line before it
WellLevelled(lines) ==
    /\ Len(lines) >= 1
    /\ Level(lines[1]) = 0
    /\ \A i \in 2..Len(lines) :
          Level(lines[i]) >= 1 /\ Level(lines[i]) <= Level(lines[i - 1]) + 1

\* for every line the indices of its ancestor lines, from the top line down
\* to its parent: the nearest earlier line of each smaller level.  One pass
\* over the lines; chain holds the ancestors of the line before i and that
\* line itself.
RECURSIVE AncestorChains(_, _, _, _)
AncestorChains(lines, i, chain, out) ==
    IF i > Len(lines) THEN out
    ELSE LET mine == SubSeq(chain, 1, Level(lines[i]))
         IN  AncestorChains(lines, i + 1, Append(mine, i), Append(out, mine))

\* the packages of the lines whose parent is the i-th line, in output order
ChildPackages(lines, chains, i) ==
    LET kids == SelectSeq([k \in 1..Len(lines) |-> k],
                          LAMBDA k : chains[k] # << >>
                                     /\ chains[k][Len(chains[k])] = i)
    IN  [k \in 1..Len(kids) |-> lines[kids[k]].package]

\* the connectors of the lines whose parent is the i-th line, in output order
ChildConnectors(lines, chains, i) ==
    LET kids == SelectSeq([k \in 1..Len(lines) |-> k],
                          LAMBDA k : chains[k] # << >>
                                     /\ chains[k][Len(chains[k])] = i)
    IN  [k \in 1..Len(kids) |-> lines[kids[k]].connector]

\* the names that occur in the graph, as keys or in a stored list
GraphMentions == DOMAIN dependency_graph
                    \cup UNION {Range(dependency_graph[p]) : p \in DOMAIN dependency_graph}

\* C11: the rendering ends (the recursion is bounded: no line lies deeper
\* than the number of names of the graph), and in its output a line is a
\* cycle-marker line exactly when its package is the package of one of its
\* ancestor lines; a marker line has no children, every other line has the
\* stored list of its package as children, so a package met again on
\* another branch is expanded again.
C11_CycleMarkerIffAncestor ==
    Rendered =>
          /\ WellLevelled(tree_lines)
          /\ tree_lines[1].package = config.package_name
          /\ LET chains == AncestorChains(tree_lines, 1, << >>, << >>)
             IN  \A i \in 1..Len(tree_lines) :
                    /\ Level(tree_lines[i]) <= Cardinality(GraphMentions)
                    /\ tree_lines[i].cycle <=>
                          \E j \in Range(chains[i]) :
                              tree_lines[j].package = tree_lines[i].package
                    /\ ChildPackages(tree_lines, chains, i)
                          = IF tree_lines[i].cycle THEN << >>
                            ELSE GraphGet(dependency_graph, tree_lines[i].package)

\* C11 witness: a rendered diamond that closes a cycle: one package is
\* expanded under two different parents and a marker line is present.
C11_Witness ==
    /\ Rendered
    /\ \E i \in 1..Len(tree_lines) : tree_lines[i].cycle
    /\ LET chains == AncestorChains(tree_lines, 1, << >>, << >>)
       IN  \E i \in 1..Len(tree_lines) : \E j \in 1..Len(tree_lines) :
              /\ i # j
              /\ ~tree_lines[i].cycle
              /\ ~tree_lines[j].cycle
              /\ tree_lines[i].package = tree_lines[j].package
              /\ Len(chains[i]) = 2
              /\ Len(chains[j]) = 2
              /\ chains[i] # chains[j]
              /\ ChildPackages(tree_lines, chains, i) # << >>

\* C13: every child line, marker or not, has the "end" connector exactly
\* when it is the last child of its parent, the "continue" connector
\* otherwise, and the children are in the stored order of the parent's list.
C13_ConnectorIffLastChild ==
    Rendered =>
        LET chains == AncestorChains(tree_lines, 1, << >>, << >>)
        IN  \A i \in 1..Len(tree_lines) :
               LET stored == GraphGet(dependency_graph, tree_lines[i].package)
                   kids == ChildPackages(tree_lines, chains, i)
               IN  /\ kids = SubSeq(stored, 1, Len(kids))
                   /\ ChildConnectors(tree_lines, chains, i)
                         = [k \in 1..Len(kids) |->
                               IF k = Len(stored) THEN "end" ELSE "continue"]

---------------------------------------------------------------------------
(* Claims about the cycle search *)

Analyzed == pc = "analyzed"

\* x -> y is an edge stored in the map
StoredEdge(x, y) ==
    x \in DOMAIN dependency_graph /\ y \in Range(dependency_graph[x])

\* the keys reachable from x along one or more edges between keys
RECURSIVE KeysAfter(_)
KeysAfter(seen) ==
    LET more == {y \in DOMAIN dependency_graph : \E x \in seen : StoredEdge(x, y)}
    IN  IF more \subseteq seen THEN seen ELSE KeysAfter(seen \cup more)

ReachableKeys(x) ==
    KeysAfter({y \in DOMAIN dependency_graph : StoredEdge(x, y)})

\* the map restricted to the edges between its keys has a cycle
HasCycle == \E x \in DOMAIN dependency_graph : x \in ReachableKeys(x)

\* C14: every reported cycle starts and ends with the same package, each
\* consecutive pair is a stored edge, every element is a key of the map,
\* and only the endpoint occurs twice.
C14_ReportedCyclesAreReal ==
    Analyzed =>
        \A c \in 1..Len(cycles) :
            LET cyc == cycles[c]
            IN  /\ Len(cyc) >= 2
                /\ cyc[1] = cyc[Len(cyc)]
                /\ \A i \in 1..(Len(cyc) - 1) : StoredEdge(cyc[i], cyc[i + 1])
                /\ \A i \in 1..Len(cyc) : cyc[i] \in DOMAIN dependency_graph
                /\ \A i \in 1..(Len(cyc) - 1) : \A j \in 1..(Len(cyc) - 1) :
                      i # j => cyc[i] # cyc[j]

\* C14 witness: a reported cycle of two packages that starts below the
\* package the search started from, in a map that also names a package
\* that is no key.
C14_Witness ==
    /\ Analyzed
    /\ \E c \in 1..Len(cycles) :
          Len(cycles[c]) = 3 /\ cycles[c][1] # key_order[1]
    /\ \E x \in DOMAIN dependency_graph :
          \E y \in Range(dependency_graph[x]) : y \notin DOMAIN dependency_graph

\* C16: the search reports no cycle exactly when the map restricted to the
\* edges between its keys is acyclic.
C16_EmptyIffAcyclic ==
    Analyzed => (cycles = << >> <=> ~HasCycle)

\* C16 witness: a map with two cycles of which the search, with its global
\* visited set, reports one.
C16_Witness ==
    /\ Analyzed
    /\ Len(cycles) = 1
    /\ \E x \in DOMAIN dependency_graph :
          /\ x \in ReachableKeys(x)
          /\ x \notin Range(cycles[1])

---------------------------------------------------------------------------
(* build_dependency_graph_bfs, one step per assignment *)

\* what the steps of the build never change
stepsFixed == << config, setOrder, lastEvent, fetched, refetched, enqueued,
                 qAtCap, key_order, tree_lines, cycles >>

\* the mutant of BodyOrder: the depth is recorded before the package is
\* added to visited_packages
BodyOrderDepthFirst == << "depth", "add", "append" >>

\* lines 187-189, the statements of the loop body in their order
BodyOrder == << "add", "depth", "append" >>

BodyPc == << "body1", "body2", "body3" >>

\* line 151
Assign151 ==
    /\ pc = "start"
    /\ dependency_graph' = EmptyMap
    /\ pc' = "l152"
    /\ UNCHANGED << stepsFixed, visited_packages, package_depths, queue,
                    package_info, dependencies, current, pending >>

\* line 152
Assign152 ==
    /\ pc = "l152"
    /\ visited_packages' = {}
    /\ pc' = "l154"
    /\ UNCHANGED << stepsFixed, dependency_graph, package_depths, queue,
                    package_info, dependencies, current, pending >>

\* line 154
Assign154 ==
    /\ pc = "l154"
    /\ package_depths' = Put(EmptyMap, config.package_name, 0)
    /\ pc' = "l159"
    /\ UNCHANGED << stepsFixed, dependency_graph, visited_packages, queue,
                    package_info, dependencies, current, pending >>

\* line 159
Assign159 ==
    /\ pc = "l159"
    /\ queue' = << [pkg |-> config.package_name, depth |-> 0] >>
    /\ pc' = "l160"
    /\ UNCHANGED << stepsFixed, dependency_graph, visited_packages,
                    package_depths, package_info, dependencies, current, pending >>

\* line 160
Add160 ==
    /\ pc = "l160"
    /\ visited_packages' = visited_packages \cup {config.package_name}
    /\ pc' = "loop"
    /\ UNCHANGED << stepsFixed, dependency_graph, package_depths, queue,
                    package_info, dependencies, current, pending >>

\* lines 164-180: popleft, fetch, extraction and the store, up to the test
\* of the depth
FetchAndStore ==
    /\ pc = "loop"
    /\ LoopCond(queue, visited_packages)
    /\ current' = Head(queue)
    /\ queue' = Rest(queue)
    /\ \E info \in BuildRecords :
        /\ package_info' = info
        /\ dependencies' = extract_dependencies(info, config, setOrder)
        /\ dependency_graph' = Put(dependency_graph, Head(queue).pkg, dependencies')
        /\ IF CanExpand(Head(queue).depth)
           THEN pending' = dependencies' /\ pc' = "for"
           ELSE pending' = << >> /\ pc' = "loop"
    /\ UNCHANGED << stepsFixed, visited_packages, package_depths >>

\* lines 164-172, 194-196: the fetch raises DependencyFetchError
FetchFails ==
    /\ pc = "loop"
    /\ LoopCond(queue, visited_packages)
    /\ current' = Head(queue)
    /\ queue' = Rest(queue)
    /\ dependency_graph' = OnFetchError(dependency_graph, Head(queue).pkg)
    /\ pc' = "loop"
    /\ UNCHANGED << stepsFixed, visited_packages, package_depths, package_info,
                    dependencies, pending >>

\* line 181 with nothing left to iterate
ForEnds ==
    /\ pc = "for"
    /\ pending = << >>
    /\ pc' = "loop"
    /\ UNCHANGED << stepsFixed, dependency_graph, visited_packages,
                    package_depths, queue, package_info, dependencies, current,
                    pending >>

\* lines 181-186: the next dep and the two tests
ForTest ==
    /\ pc = "for"
    /\ pending # << >>
    /\ IF Head(pending) \notin visited_packages
          /\ Cardinality(visited_packages) < MAX_PACKAGES
       THEN pc' = BodyPc[1] /\ pending' = pending
       ELSE pc' = "for" /\ pending' = Tail(pending)
    /\ UNCHANGED << stepsFixed, dependency_graph, visited_packages,
                    package_depths, queue, package_info, dependencies, current >>

\* one of the lines 187-189, the k-th statement of the body
BodyStatement(k) ==
    /\ pc = BodyPc[k]
    /\ visited_packages' =
          IF BodyOrder[k] = "add" THEN visited_packages \cup {Head(pending)}
          ELSE visited_packages
    /\ package_depths' =
          IF BodyOrder[k] = "depth"
          THEN Put(package_depths, Head(pending), current.depth + 1)
          ELSE package_depths
    /\ queue' =
          IF BodyOrder[k] = "append"
          THEN Append(queue, [pkg |-> Head(pending), depth |-> current.depth + 1])
          ELSE queue
    /\ IF k < Len(BodyPc)
       THEN pc' = BodyPc[k + 1] /\ pending' = pending
       ELSE pc' = "for" /\ pending' = Tail(pending)
    /\ UNCHANGED << stepsFixed, dependency_graph, package_info, dependencies,
                    current >>

Statement187to189 == \E k \in 1..Len(BodyPc) : BodyStatement(k)

\* line 164 is false
LoopEnds ==
    /\ pc = "loop"
    /\ ~LoopCond(queue, visited_packages)
    /\ pc' = "done"
    /\ UNCHANGED << stepsFixed, dependency_graph, visited_packages,
                    package_depths, queue, package_info, dependencies, current,
                    pending >>

NextSteps ==
    \/ Assign151
    \/ Assign152
    \/ Assign154
    \/ Assign159
    \/ Add160
    \/ FetchAndStore
    \/ FetchFails
    \/ ForEnds
    \/ ForTest
    \/ Statement187to189
    \/ LoopEnds

SpecSteps == Init /\ [][NextSteps]_vars

---------------------------------------------------------------------------
(* Claims about the build, assignment by assignment *)

DepthKeysVisited == DOMAIN package_depths \subseteq visited_packages

\* C15: from the moment the build's structures are initialised (line 154
\* done) until the build returns, after every assignment, VisitedSet is a
\* superset of the keys of DepthMap.
C15_VisitedCoversDepthsAlways ==
    pc \notin {"start", "l152", "l154"} => DepthKeysVisited

\* C15 as amended: from the moment the root has been added to VisitedSet
\* (line 160 done) until the build returns, after every assignment,
\* VisitedSet is a superset of the keys of DepthMap.
C15_VisitedCoversDepthsFromSeed ==
    pc \notin {"start", "l152", "l154", "l159", "l160"} => DepthKeysVisited

\* C15 witness: between lines 187 and 188 the dependency is in VisitedSet
\* and has no depth yet.
C15_Witness ==
    /\ pc = "body2"
    /\ Head(pending) \in visited_packages
    /\ Head(pending) \notin DOMAIN package_depths
    /\ current.depth >= 1

====
